---- MODULE Spec2Model ----
(***************************************************************************)
(* Band availability web application (src/flask-app.py).                   *)
(*                                                                         *)
(* The spreadsheet is the durable store.  It is modelled as a rectangular  *)
(* block of cells, rows 1..NumRows and columns 1..NumCols (column 1 is     *)
(* column A).  A blank cell is the empty string.  The Sheets read call     *)
(* returns a list of rows with trailing blank cells and trailing blank     *)
(* rows left out; Python lists are modelled as sequences, so the Python    *)
(* index i is position i + 1 here.                                         *)
(*                                                                         *)
(* The two markers the code writes are one character each, a check mark    *)
(* and a cross; they are written "check" and "cross" below.                *)
(***************************************************************************)
EXTENDS Integers, Sequences, FiniteSets, TLC

\* ------------------------------------------------------------------ bounds
NumRows == 3        \* rows of the sheet: the header row and the rows below it
NumCols == 3        \* columns of the sheet: column A and the member columns
MaxDates == 2       \* longest list of dates one parse returns
MaxRequests == 1    \* update requests handled in one run of the model

\* ------------------------------------------------------- values in the sheet
CHECK == "check"
CROSS == "cross"
Labels == {"Date"}
HeaderNames == {"Alice", "Bob"}
SheetDates == {"d1", "d2"}

\* ------------------------------------------------------- values in requests
MemberNames == {"Alice", "Bob", "Carol", "Date"}
RequestDates == {"d1", "d2"}
Statuses == {"available", "unavailable"}

DateLists == UNION {[1..n -> RequestDates] : n \in 0..MaxDates}

VARIABLES
    session,    \* the Flask session: which keys it holds
    sheets,     \* number of sheets of the spreadsheet
    sheet,      \* cells of the first sheet
    nreq,       \* update requests handled so far
    resp,       \* the last response, with the locals of the handler that made it
    pc,         \* concurrent update requests: where each one is
    req,        \* concurrent update requests: member, dates and status of each
    plan,       \* concurrent update requests: what each one read and planned
    wrote       \* concurrent update requests: the order of the batch writes

vars == <<session, sheets, sheet, nreq, resp, pc, req, plan, wrote>>
concvars == <<pc, req, plan, wrote>>

Workers == {1, 2}

\* ------------------------------------------------------------- the Sheets API
Max(S) == CHOOSE x \in S : \A y \in S : y <= x

\* A row as the API returns it: trailing blank cells are left out.
TrimRow(row) ==
    SubSeq(row, 1, Max({0} \cup {i \in 1..Len(row) : row[i] # ""}))

\* values().get(range = A1:Z<lastRow>).execute().get('values', []):
\* rows 1..lastRow, trailing blank rows left out.
GetValues(sh, lastRow) ==
    LET rows == [r \in 1..lastRow |-> TrimRow(sh[r])]
    IN  SubSeq(rows, 1, Max({0} \cup {r \in 1..lastRow : rows[r] # <<>>}))

\* ------------------------------------------------------- update_google_sheet
\* A variant that returns the index of the last occurrence.
HeadersIndexLast(headers, member_name) ==
    IF \E i \in 1..Len(headers) : headers[i] = member_name
    THEN Max({i \in 1..Len(headers) : headers[i] = member_name}) - 1
    ELSE -1

\* headers.index(member_name): the Python index, or -1 for ValueError.
HeadersIndex(headers, member_name) ==
    IF \E i \in 1..Len(headers) : headers[i] = member_name
    THEN (CHOOSE i \in 1..Len(headers) :
              /\ headers[i] = member_name
              /\ \A j \in 1..(i - 1) : headers[j] # member_name) - 1
    ELSE -1

\* A variant that keeps the label: headers[0:]
HeadersAll(headers) == headers

\* headers[1:]
HeadersTail(headers) == SubSeq(headers, 2, Len(headers))

\* chr(65 + member_col_index), as the character code
ColLetter(member_col_index) == 65 + member_col_index

\* the value written for a status
Marker(status) == IF status = "available" THEN CHECK ELSE CROSS

\* A variant without the break: the last matching row is the one kept.
FindRowBottom(values, date) ==
    Max({0} \cup {k \in 2..Len(values) : Len(values[k]) > 0 /\ values[k][1] = date})

\* The inner loop: row_index of the first row of values[1:] (numbered from 2)
\* that is not empty and whose first cell is the date; 0 when found stays False.
FindRow(values, date) ==
    LET hits == {k \in 2..Len(values) : Len(values[k]) > 0 /\ values[k][1] = date}
    IN  IF hits = {} THEN 0 ELSE CHOOSE k \in hits : \A j \in hits : k <= j

\* One entry of the batch: the range (column letter, row number) and the value.
CellUpdate(member_col_index, row_index, status) ==
    [col |-> ColLetter(member_col_index), row |-> row_index, value |-> Marker(status)]

\* A variant that never sets found: every date is reported as not found.
RECURSIVE PlanDatesNoFlag(_, _, _, _)
PlanDatesNoFlag(values, member_col_index, dates, status) ==
    IF dates = <<>>
    THEN [updates |-> <<>>, dates_not_found |-> <<>>]
    ELSE LET row_index == FindRow(values, Head(dates))
             rest == PlanDatesNoFlag(values, member_col_index, Tail(dates), status)
         IN  [updates |-> IF row_index # 0
                          THEN <<CellUpdate(member_col_index, row_index, status)>>
                                   \o rest.updates
                          ELSE rest.updates,
              dates_not_found |-> <<Head(dates)>> \o rest.dates_not_found]

\* The outer loop over dates: updates and dates_not_found.
RECURSIVE PlanDates(_, _, _, _)
PlanDates(values, member_col_index, dates, status) ==
    IF dates = <<>>
    THEN [updates |-> <<>>, dates_not_found |-> <<>>]
    ELSE LET row_index == FindRow(values, Head(dates))
             rest == PlanDates(values, member_col_index, Tail(dates), status)
         IN  IF row_index # 0
             THEN [updates |-> <<CellUpdate(member_col_index, row_index, status)>>
                                   \o rest.updates,
                   dates_not_found |-> rest.dates_not_found]
             ELSE [updates |-> rest.updates,
                   dates_not_found |-> <<Head(dates)>> \o rest.dates_not_found]

\* One range of a batch written to the sheet: the A1 cell is decoded to its
\* row and column (A is column 1).  A cell outside the block is not stored.
WriteCell(sh, u) ==
    LET c == u.col - 64
    IN  IF u.row \in 1..NumRows /\ c \in 1..NumCols
        THEN [sh EXCEPT ![u.row][c] = u.value]
        ELSE sh

\* values().batchUpdate(body = {data: updates}): the ranges in order.
RECURSIVE BatchUpdate(_, _)
BatchUpdate(sh, updates) ==
    IF updates = <<>> THEN sh
    ELSE BatchUpdate(WriteCell(sh, Head(updates)), Tail(updates))

\* A variant that accepts the key /authorize stores: 'state' in session
HasStateOrCredentials(sess) == sess.credentials \/ sess.state

\* 'credentials' in session
HasCredentials(sess) == sess.credentials

\* A variant without the check for an empty sheet.
SheetIsEmptyNever(values) == FALSE

\* not values
SheetIsEmpty(values) == values = <<>>

NoOutcome ==
    [error |-> "", listed |-> <<>>, values |-> <<>>, col |-> -1,
     updates |-> <<>>, dates_not_found |-> <<>>, reads |-> 0, writes |-> 0]

\* update_google_sheet(member_name, dates, status): the exception raised (error,
\* "" for a normal return), its locals, and the API calls made.
UpdateGoogleSheet(sess, nsheets, sh, member_name, dates, status) ==
    IF ~HasCredentials(sess)
    THEN [NoOutcome EXCEPT !.error = "Not authenticated with Google"]
    ELSE IF nsheets = 0
    THEN [NoOutcome EXCEPT !.error = "No sheets found in spreadsheet", !.reads = 1]
    ELSE LET values == GetValues(sh, NumRows) IN
         IF SheetIsEmpty(values)
         THEN [NoOutcome EXCEPT !.error = "Sheet is empty", !.reads = 2]
         ELSE IF values = <<>>    \* values[0] of an empty list
         THEN [NoOutcome EXCEPT !.error = "list index out of range", !.reads = 2]
         ELSE LET headers == values[1]
                  member_col_index == HeadersIndex(headers, member_name)
              IN  IF member_col_index = -1
                  THEN [NoOutcome EXCEPT !.error = "Member not found",
                                         !.listed = HeadersTail(headers),
                                         !.values = values, !.reads = 2]
                  ELSE LET planned == PlanDates(values, member_col_index, dates, status)
                       IN  [error |-> "", listed |-> <<>>, values |-> values,
                            col |-> member_col_index,
                            updates |-> planned.updates,
                            dates_not_found |-> planned.dates_not_found,
                            reads |-> 2,
                            writes |-> IF planned.updates # <<>> THEN 1 ELSE 0]

NoReq == [member |-> "", dates |-> <<>>, status |-> ""]

\* ------------------------------------------------------------------ responses
NoResp ==
    [endpoint |-> "", code |-> 0, error |-> "", llm |-> 0, reads |-> 0, writes |-> 0,
     member |-> "", text |-> "", dates |-> <<>>, status |-> "", values |-> <<>>, col |-> -1,
     updates |-> <<>>, dates_not_found |-> <<>>, listed |-> <<>>, before |-> <<>>]

\* --------------------------------------------------------------- initial state
BlankSheet == [r \in 1..NumRows |-> [c \in 1..NumCols |-> ""]]

\* A schedule: the label and the member names in the header row, a date in
\* column A of each row below it, and no marker yet.
Schedule(label, names, dcol) ==
    [r \in 1..NumRows |->
        [c \in 1..NumCols |->
            IF r = 1 THEN (IF c = 1 THEN label ELSE names[c])
            ELSE (IF c = 1 THEN dcol[r] ELSE "")]]

\* The members in turn, and the dates in turn.
PlainNames == [c \in 2..NumCols |-> IF c % 2 = 0 THEN "Alice" ELSE "Bob"]
PlainDates == [r \in 2..NumRows |-> IF r % 2 = 0 THEN "d1" ELSE "d2"]

\* Any member names (a name may occur twice) over the dates in turn, and the
\* members in turn over any dates (a date may occur twice, a row may be blank).
Schedules ==
    {Schedule(label, names, PlainDates) :
        label \in Labels, names \in [2..NumCols -> HeaderNames]}
    \cup
    {Schedule(label, PlainNames, dcol) :
        label \in Labels, dcol \in [2..NumRows -> SheetDates \cup {""}]}

Init ==
    /\ session = [credentials |-> FALSE, state |-> FALSE]
    /\ \/ sheets = 0 /\ sheet = BlankSheet
       \/ sheets = 1 /\ sheet \in Schedules \cup {BlankSheet}
    /\ nreq = 0
    /\ resp = NoResp
    /\ pc = [w \in Workers |-> "idle"]
    /\ req = [w \in Workers |-> NoReq]
    /\ plan = [w \in Workers |-> NoOutcome]
    /\ wrote = <<>>

\* ------------------------------------------------------------------- handlers
\* GET /
Index ==
    /\ resp' = [NoResp EXCEPT !.endpoint = "/",
                              !.code = IF HasCredentials(session) THEN 200 ELSE 302]
    /\ UNCHANGED <<session, sheets, sheet, nreq>>
    /\ UNCHANGED concvars

\* GET /authorize
Authorize ==
    /\ session' = [session EXCEPT !.state = TRUE]
    /\ resp' = [NoResp EXCEPT !.endpoint = "/authorize", !.code = 302]
    /\ UNCHANGED <<sheets, sheet, nreq>>
    /\ UNCHANGED concvars

\* GET /oauth2callback: session['state'] raises KeyError without a state, and
\* fetch_token raises when the provider refuses the code.
OAuth2Callback ==
    \E token_ok \in BOOLEAN :
        /\ IF session.state /\ token_ok
           THEN /\ session' = [session EXCEPT !.credentials = TRUE]
                /\ resp' = [NoResp EXCEPT !.endpoint = "/oauth2callback", !.code = 302]
           ELSE /\ session' = session
                /\ resp' = [NoResp EXCEPT !.endpoint = "/oauth2callback", !.code = 500]
        /\ UNCHANGED <<sheets, sheet, nreq>>
        /\ UNCHANGED concvars

\* GET /logout
Logout ==
    /\ session' = [credentials |-> FALSE, state |-> FALSE]
    /\ resp' = [NoResp EXCEPT !.endpoint = "/logout", !.code = 302]
    /\ UNCHANGED <<sheets, sheet, nreq>>
    /\ UNCHANGED concvars

\* GET /api/members
GetMembers ==
    /\ resp' =
        IF ~HasCredentials(session)
        THEN [NoResp EXCEPT !.endpoint = "/api/members", !.code = 401,
                            !.error = "Not authenticated"]
        ELSE IF sheets = 0
        THEN [NoResp EXCEPT !.endpoint = "/api/members", !.code = 404,
                            !.error = "No sheets found in spreadsheet", !.reads = 1]
        ELSE LET values == GetValues(sheet, 1)
                 headers == IF values = <<>> THEN <<>> ELSE values[1]
                 members == IF Len(headers) > 1 THEN HeadersTail(headers) ELSE <<>>
             IN  [NoResp EXCEPT !.endpoint = "/api/members", !.code = 200,
                                !.values = values, !.listed = members, !.reads = 2]
    /\ UNCHANGED <<session, sheets, sheet, nreq>>
    /\ UNCHANGED concvars

\* GET /api/view-schedule
ViewSchedule ==
    /\ resp' =
        IF ~HasCredentials(session)
        THEN [NoResp EXCEPT !.endpoint = "/api/view-schedule", !.code = 401,
                            !.error = "Not authenticated"]
        ELSE IF sheets = 0
        THEN [NoResp EXCEPT !.endpoint = "/api/view-schedule", !.code = 404,
                            !.error = "No sheets found", !.reads = 1]
        ELSE LET values == GetValues(sheet, NumRows)
             IN  IF values = <<>>
                 THEN [NoResp EXCEPT !.endpoint = "/api/view-schedule", !.code = 404,
                                     !.error = "Sheet is empty", !.reads = 2]
                 ELSE [NoResp EXCEPT !.endpoint = "/api/view-schedule", !.code = 200,
                                     !.values = values, !.reads = 2]
    /\ UNCHANGED <<session, sheets, sheet, nreq>>
    /\ UNCHANGED concvars

\* What parse_availability returns: the language model's answer, validated.
ParseResults == [dates : DateLists, status : Statuses]

\* The response of POST /api/update-availability after a parse that returned.
UpdateResponse(member_name, parsed, out) ==
    [NoResp EXCEPT !.endpoint = "/api/update-availability",
                   !.code = IF out.error = "" THEN 200 ELSE 500,
                   !.error = out.error, !.llm = 1,
                   !.reads = out.reads, !.writes = out.writes,
                   !.member = member_name, !.text = "text",
                   !.dates = parsed.dates, !.status = parsed.status,
                   !.values = out.values, !.col = out.col,
                   !.updates = out.updates,
                   !.dates_not_found = out.dates_not_found,
                   !.listed = out.listed,
                   !.before = sheet]

\* POST /api/update-availability with body {memberName, availabilityText};
\* a missing field is the empty string.
UpdateAvailability ==
    \E member_name \in MemberNames \cup {""}, availability_text \in {"", "text"} :
        IF member_name = "" \/ availability_text = ""
        THEN /\ resp' = [NoResp EXCEPT !.endpoint = "/api/update-availability",
                                       !.code = 400, !.member = member_name,
                                       !.text = availability_text,
                                       !.error = "Missing memberName or availabilityText"]
             /\ UNCHANGED <<session, sheets, sheet, nreq>>
             /\ UNCHANGED concvars
        ELSE IF ~HasCredentials(session)
        THEN /\ resp' = [NoResp EXCEPT !.endpoint = "/api/update-availability",
                                       !.code = 401, !.member = member_name,
                                       !.text = availability_text,
                                       !.error = "Not authenticated"]
             /\ UNCHANGED <<session, sheets, sheet, nreq>>
             /\ UNCHANGED concvars
        ELSE \/ \* the chain raises: the model call fails or its answer is malformed
                /\ resp' = [NoResp EXCEPT !.endpoint = "/api/update-availability",
                                          !.code = 500, !.member = member_name,
                                          !.text = availability_text,
                                          !.error = "parse failed", !.llm = 1]
                /\ UNCHANGED <<session, sheets, sheet, nreq>>
                /\ UNCHANGED concvars
             \/ /\ nreq < MaxRequests
                /\ \E parsed \in ParseResults :
                    LET out == UpdateGoogleSheet(session, sheets, sheet, member_name,
                                                 parsed.dates, parsed.status)
                    IN  /\ resp' = UpdateResponse(member_name, parsed, out)
                        /\ sheet' = IF out.writes = 1
                                    THEN BatchUpdate(sheet, out.updates) ELSE sheet
                        /\ nreq' = nreq + 1
                        /\ UNCHANGED <<session, sheets>>
                        /\ UNCHANGED concvars

Next ==
    \/ Index
    \/ Authorize
    \/ OAuth2Callback
    \/ Logout
    \/ GetMembers
    \/ ViewSchedule
    \/ UpdateAvailability

Spec == Init /\ [][Next]_vars

\* ------------------------------------------- two update requests at one time
\* Each request reads the sheet in one API call and later sends its batch in
\* one API call; the calls of the two requests come in any order.  Both
\* requests carry a session that holds credentials.
ConcMembers == {"Alice", "Bob", "Date"}

\* The schedules with a date in every row below the header.
ConcSchedules == {sh \in Schedules : \A r \in 2..NumRows : sh[r][1] # ""}

InitConc ==
    /\ session = [credentials |-> TRUE, state |-> TRUE]
    /\ sheets = 1
    /\ sheet \in ConcSchedules
    /\ nreq = 0
    /\ resp = NoResp
    /\ pc = [w \in Workers |-> "idle"]
    /\ req = [w \in Workers |-> NoReq]
    /\ plan = [w \in Workers |-> NoOutcome]
    /\ wrote = <<>>

\* update_google_sheet up to the end of the loop over dates: the request is
\* parsed, the sheet is read, and the batch is built from what was read.
ReadGrid(w) ==
    /\ pc[w] = "idle"
    /\ \E member_name \in ConcMembers, parsed \in ParseResults :
        LET out == UpdateGoogleSheet(session, sheets, sheet, member_name,
                                     parsed.dates, parsed.status)
        IN  /\ req' = [req EXCEPT ![w] = [member |-> member_name,
                                          dates |-> parsed.dates,
                                          status |-> parsed.status]]
            /\ plan' = [plan EXCEPT ![w] = out]
            /\ pc' = [pc EXCEPT ![w] = IF out.writes = 1 THEN "planned" ELSE "done"]
    /\ UNCHANGED <<session, sheets, sheet, nreq, resp, wrote>>

\* The rows a request read, as a block of cells again.
Pad(values) ==
    [r \in 1..NumRows |->
        [c \in 1..NumCols |->
            IF r <= Len(values) /\ c <= Len(values[r]) THEN values[r][c] ELSE ""]]

\* A variant that writes the whole grid back as the request read it, with its
\* updates applied, instead of the ranges of its batch alone.
WriteBatchWholeGrid(w) ==
    /\ pc[w] = "planned"
    /\ sheet' = BatchUpdate(Pad(plan[w].values), plan[w].updates)
    /\ wrote' = Append(wrote, w)
    /\ pc' = [pc EXCEPT ![w] = "done"]
    /\ UNCHANGED <<session, sheets, nreq, resp, req, plan>>

\* The batch write of update_google_sheet, sent when updates is not empty.
WriteBatch(w) ==
    /\ pc[w] = "planned"
    /\ sheet' = BatchUpdate(sheet, plan[w].updates)
    /\ wrote' = Append(wrote, w)
    /\ pc' = [pc EXCEPT ![w] = "done"]
    /\ UNCHANGED <<session, sheets, nreq, resp, req, plan>>

NextConc == \E w \in Workers : ReadGrid(w) \/ WriteBatch(w)

SpecConc == InitConc /\ [][NextConc]_vars

\* -------------------------------------------------------------------- claims
\* The words of the claims, stated over the grid a request read (resp.values,
\* the Python list of rows) and what it answered.

UpdateEndpoint == "/api/update-availability"
ApiEndpoints == {"/api/members", UpdateEndpoint, "/api/view-schedule"}

\* The last request was an update that fetched a non-empty grid.
Reconciled == resp.endpoint = UpdateEndpoint /\ resp.values # <<>>

\* The Python indexes of the header cells equal to a name.
HeaderCols(grid, name) == {c \in 0..(Len(grid[1]) - 1) : grid[1][c + 1] = name}

\* The Python indexes of the rows below the header whose column 0 is a date.
DateRows(grid, date) ==
    {r \in 1..(Len(grid) - 1) : grid[r + 1] # <<>> /\ grid[r + 1][1] = date}

Min(S) == CHOOSE x \in S : \A y \in S : x <= y

\* The A1 cell of grid row r, column c, with a value.
A1Update(r, c, value) == [col |-> 65 + c, row |-> r + 1, value |-> value]

\* C1: a single-date request for a date that column 0 of some row below the
\* header holds, by a member named in the header, emits exactly one update: at
\* the topmost such row, in the member's column, with the marker of the status.
C1_SingleDateOneUpdate ==
    (/\ Reconciled
     /\ Len(resp.dates) = 1
     /\ HeaderCols(resp.values, resp.member) # {}
     /\ DateRows(resp.values, resp.dates[1]) # {})
    => /\ resp.code = 200
       /\ resp.updates =
            <<A1Update(Min(DateRows(resp.values, resp.dates[1])),
                       Min(HeaderCols(resp.values, resp.member)),
                       IF resp.status = "available" THEN CHECK ELSE CROSS)>>

\* C1 witness: the date stands in two rows, and one update was emitted.
C1_Witness ==
    /\ Reconciled
    /\ Len(resp.dates) = 1
    /\ Cardinality(DateRows(resp.values, resp.dates[1])) = 2
    /\ Len(resp.updates) = 1
    /\ resp.status = "unavailable"

\* C2: for a non-empty grid and a member named in the header the call returns;
\* dates_not_found is the dates no row holds, in input order and once per
\* occurrence; every update is at a row that holds a requested date; and
\* updated_count + len(dates_not_found) = len(dates).
C2_UnmatchedDatesReported ==
    (Reconciled /\ HeaderCols(resp.values, resp.member) # {})
    => LET Absent(d) == DateRows(resp.values, d) = {}
       IN  /\ resp.code = 200 /\ resp.error = ""
           /\ resp.dates_not_found = SelectSeq(resp.dates, Absent)
           /\ \A i \in 1..Len(resp.updates) :
                \E j \in 1..Len(resp.dates) :
                    (resp.updates[i].row - 1) \in DateRows(resp.values, resp.dates[j])
           /\ Len(resp.updates) + Len(resp.dates_not_found) = Len(resp.dates)

\* C2 witness: two different dates that no row holds, and nothing emitted.
C2_Witness ==
    /\ Reconciled
    /\ resp.code = 200
    /\ Len(resp.dates_not_found) = 2
    /\ resp.dates_not_found[1] # resp.dates_not_found[2]
    /\ resp.updates = <<>>

\* C3: the column of every update of one call is the leftmost header cell
\* equal to the member name, also when the name occurs again further right.
C3_LeftmostColumn ==
    (Reconciled /\ HeaderCols(resp.values, resp.member) # {})
    => /\ resp.col = Min(HeaderCols(resp.values, resp.member))
       /\ \A i \in 1..Len(resp.updates) :
            resp.updates[i].col = 65 + Min(HeaderCols(resp.values, resp.member))

\* C3 witness: the name heads two columns and the batch holds two updates.
C3_Witness ==
    /\ Reconciled
    /\ Cardinality(HeaderCols(resp.values, resp.member)) = 2
    /\ Len(resp.updates) = 2
    /\ resp.updates[1].row # resp.updates[2].row

\* C4: a member the header of a non-empty grid does not name fails with
\* member-not-found, the message lists the header cells at columns 1..N in
\* order, no batch is sent and the sheet is as it was.
C4_MemberNotFound ==
    (Reconciled /\ HeaderCols(resp.values, resp.member) = {})
    => /\ resp.error = "Member not found"
       /\ resp.listed = [i \in 1..(Len(resp.values[1]) - 1) |-> resp.values[1][i + 1]]
       /\ resp.updates = <<>> /\ resp.writes = 0
       /\ sheet = resp.before

\* C4 witness: Carol is refused with the list Alice, Bob whatever she asked.
C4_Witness ==
    /\ Reconciled
    /\ resp.member = "Carol"
    /\ resp.error = "Member not found"
    /\ resp.listed = <<"Alice", "Bob">>
    /\ resp.dates # <<>>

\* C5: when the grid fetched has zero rows the call fails with the empty-sheet
\* error, never member-not-found, before any column is looked up, and no batch
\* is sent.
C5_EmptySheetFirst ==
    (/\ resp.endpoint = UpdateEndpoint
     /\ sheets = 1
     /\ resp.before = BlankSheet)
    => /\ resp.error = "Sheet is empty"
       /\ resp.col = -1 /\ resp.listed = <<>>
       /\ resp.updates = <<>> /\ resp.writes = 0
       /\ sheet = BlankSheet

\* C5 witness: a member no header could name met an empty sheet.
C5_Witness ==
    /\ resp.endpoint = UpdateEndpoint
    /\ resp.error = "Sheet is empty"
    /\ resp.member = "Carol"
    /\ resp.dates # <<>>

\* C6 as claimed: the same request run again on the sheet the first run left
\* emits the same batch and the same dates_not_found, and leaves the sheet as
\* it is.
C6_SecondRunSameBatch ==
    (resp.endpoint = UpdateEndpoint /\ resp.code = 200)
    => LET again == UpdateGoogleSheet(session, sheets, sheet, resp.member,
                                      resp.dates, resp.status)
       IN  /\ again.error = ""
           /\ again.updates = resp.updates
           /\ again.dates_not_found = resp.dates_not_found
           /\ BatchUpdate(sheet, again.updates) = sheet

\* A well-formed /api request handled while the session holds no credentials
\* is answered 401 with no language-model call, no sheet read, no sheet write.
Refused ==
    (/\ resp.endpoint \in ApiEndpoints
     /\ ~session.credentials
     /\ (resp.endpoint = UpdateEndpoint => resp.member # "" /\ resp.text # ""))
    => /\ resp.code = 401
       /\ resp.llm = 0 /\ resp.reads = 0 /\ resp.writes = 0

\* C7: in every sequence of requests over one session, a well-formed /api
\* request handled without credentials is refused with 401 and touches neither
\* the language model nor the sheet; /logout leaves the session without
\* credentials, and only /oauth2callback gives a session credentials.
C7_NoCredentials401 ==
    /\ []Refused
    /\ [][/\ resp'.endpoint = "/logout" => ~session'.credentials
          /\ ~session.credentials /\ session'.credentials
                => resp'.endpoint = "/oauth2callback"
          /\ ~session'.credentials => sheet' = sheet]_vars

\* C7 witness: an update request was served, and a later one is refused.
C7_Witness ==
    /\ nreq = 1
    /\ ~session.credentials
    /\ resp.endpoint = UpdateEndpoint
    /\ resp.code = 401

\* C8 as claimed: with credentials, a spreadsheet with no sheet and a first
\* sheet with no row are answered 404 on the three endpoints that read it.
C8_EmptyIs404 ==
    (/\ resp.endpoint \in ApiEndpoints
     /\ session.credentials
     /\ resp.code # 400
     /\ resp.error # "parse failed"
     /\ (sheets = 0 \/ sheet = BlankSheet))
    => resp.code = 404

\* The cells a concurrent request targets: the ranges of its batch.
Targets(w) == {[col |-> plan[w].updates[i].col, row |-> plan[w].updates[i].row] :
                  i \in 1..Len(plan[w].updates)}

CellOf(t) == sheet[t.row][t.col - 64]

\* C9: when both requests are done, a cell both targeted holds the marker of
\* the batch written last, and a cell only one targeted holds that one's.
C9_LastWriteWins ==
    (\A w \in Workers : pc[w] = "done")
    => \A w \in Workers : \A t \in Targets(w) :
         LET other == CHOOSE v \in Workers : v # w
         IN  IF t \in Targets(other)
             THEN CellOf(t) = (IF req[wrote[Len(wrote)]].status = "available"
                               THEN CHECK ELSE CROSS)
             ELSE CellOf(t) = (IF req[w].status = "available" THEN CHECK ELSE CROSS)

\* C9 witness: both requests read before either wrote, their statuses differ,
\* one cell is in both batches and one in the first batch only.
C9_Witness ==
    /\ \A w \in Workers : pc[w] = "done"
    /\ Len(wrote) = 2
    /\ plan[1].values = plan[2].values
    /\ req[1].status # req[2].status
    /\ Targets(1) \cap Targets(2) # {}
    /\ Targets(1) \ Targets(2) # {}

\* C10 as claimed: every update is at a row >= 1 and a column >= 1 of the grid,
\* and the header row and column 0 of the sheet are as they were.
C10_HeaderAndDatesKept ==
    (resp.endpoint = UpdateEndpoint /\ resp.before # <<>>)
    => /\ \A i \in 1..Len(resp.updates) :
            resp.updates[i].row >= 2 /\ resp.updates[i].col >= 66
       /\ sheet[1] = resp.before[1]
       /\ \A r \in 1..NumRows : sheet[r][1] = resp.before[r][1]

====
